---- MODULE Spec2Model ----
(***************************************************************************)
(* Model of learning_bot.py: the markup conversion, the paragraph          *)
(* splitting and the sending loop of send_to_telegram, the processed-url   *)
(* file, and main with its top-level exception handler.                    *)
(*                                                                         *)
(* A string is a sequence of integers.  An element n > 0 is the character  *)
(* with code point n.  An element n < 0 is a run of -n characters "x":     *)
(* characters that are no newline and no whitespace and that none of the   *)
(* patterns of send_to_telegram names, so that a run takes part in a match *)
(* only under ".".  len, split, replace and re.sub are exact on this form, *)
(* and max_length keeps its value 4096.  The processed-url file is the     *)
(* sequence of the characters it holds.                                    *)
(***************************************************************************)
EXTENDS Integers, Sequences, FiniteSets, TLC

VARIABLES
    pc,             \* position of the program
    message,        \* send_to_telegram: its argument
    content,        \* send_to_telegram: content after the re.sub chain
    html_message,   \* send_to_telegram: header + content
    messages,       \* send_to_telegram: the parts to send
    nParts,         \* len(messages) of the call that sends the analysis
    idx,            \* index of the next part to send (the loop's i, 1-based)
    events,         \* requests.post / time.sleep calls of the current run, in order
    file,           \* characters of processed_urls.txt
    file0,          \* file at the start of the current run
    appended,       \* urls written by save_processed_urls in the runs before this one
    processed_urls, \* main's processed_urls set
    seen_urls,      \* main's seen_urls set
    all_articles,   \* main's all_articles (each article is its url)
    group,          \* index of the next keyword group to fetch
    searchLog,      \* status of each fetch_articles_by_keywords call of the run
    failedAt,       \* which call raised into main's except clause ("none" if none)
    outcome,        \* how the current run ended ("running" until it has)
    sendCalls,      \* calls of send_to_telegram in the current run, in order
    run             \* number of runs started

vars == <<pc, message, content, html_message, messages, nParts, idx, events, file,
          file0, appended, processed_urls, seen_urls, all_articles, group, searchLog,
          failedAt, outcome, sendCalls, run>>

(***************************************************************************)
(* Generic helpers                                                         *)
(***************************************************************************)
Range(s) == {s[i] : i \in 1..Len(s)}

RECURSIVE SeqsUpTo(_, _)
\* all sequences over S of length <= n
SeqsUpTo(S, n) ==
    IF n = 0 THEN {<<>>}
    ELSE LET shorter == SeqsUpTo(S, n - 1)
         IN  shorter \cup {Append(s, x) : s \in {t \in shorter : Len(t) = n - 1}, x \in S}

\* Op applied to the value of x
Apply(Op(_), x) == CHOOSE y \in {Op(v) : v \in {x}} : TRUE

RECURSIVE Concat(_)
Concat(ss) == IF ss = <<>> THEN <<>> ELSE Head(ss) \o Concat(Tail(ss))

\* the printable ASCII characters, in the order of their code points 32..126
\* (the backslash and the grave accent go by name)
Printable ==
    <<" ", "!", "\"", "#", "$", "%", "&", "'", "(", ")", "*", "+", ",", "-", ".", "/",
      "0", "1", "2", "3", "4", "5", "6", "7", "8", "9", ":", ";", "<", "=", ">", "?",
      "@", "A", "B", "C", "D", "E", "F", "G", "H", "I", "J", "K", "L", "M", "N", "O",
      "P", "Q", "R", "S", "T", "U", "V", "W", "X", "Y", "Z", "[", "BACKSLASH", "]", "^", "_",
      "GRAVE ACCENT", "a", "b", "c", "d", "e", "f", "g", "h", "i", "j", "k", "l", "m", "n", "o",
      "p", "q", "r", "s", "t", "u", "v", "w", "x", "y", "z", "{", "|", "}", "~">>

\* code point of a character; the glyphs of the program's literals go by name
Ord(c) ==
    CASE c = "\t" -> 9
      [] c = "\n" -> 10
      [] c = "\f" -> 12
      [] c = "\r" -> 13
      [] c = "WARNING SIGN" -> 9888
      [] c = "VARIATION SELECTOR-16" -> 65039
      [] c = "CROSS MARK" -> 10060
      [] c = "MAGNIFYING GLASS" -> 128269
      [] OTHER -> 31 + CHOOSE i \in 1..Len(Printable) : Printable[i] = c

\* the string with the characters cs
Str(cs) == [i \in 1..Len(cs) |-> Ord(cs[i])]

NL == Ord("\n")

(***************************************************************************)
(* The re.sub chain of send_to_telegram                                    *)
(***************************************************************************)
StartsWith(s, i, pat) ==
    /\ i + Len(pat) - 1 <= Len(s)
    /\ SubSeq(s, i, i + Len(pat) - 1) = pat

\* least element of a set of integers that is not empty
Min(S) == CHOOSE k \in S : \A j \in S : k <= j

\* greatest element of a set of integers that is not empty
Max(S) == CHOOSE k \in S : \A j \in S : k >= j

\* The lazy group (.*?) followed by `close`: the first position k >= j where
\* `close` starts, with no newline in s[j..k-1] ("." does not match "\n");
\* 0 when there is none.
FindClose(s, j, close) ==
    LET stops == {k \in j..Len(s) : StartsWith(s, k, close) \/ s[k] = NL}
    IN  IF stops = {} THEN 0
        ELSE IF StartsWith(s, Min(stops), close) THEN Min(stops)
        ELSE 0

\* where the match of open(.*?)close that starts at p has its `close`; 0 when
\* no match starts at p
MatchClose(s, p, open, close) ==
    IF StartsWith(s, p, open) THEN FindClose(s, p + Len(open), close) ELSE 0

\* the leftmost position at or after i where open(.*?)close matches; 0 when none
NextMatch(s, i, open, close) ==
    LET ms == {p \in i..Len(s) : MatchClose(s, p, open, close) # 0}
    IN  IF ms = {} THEN 0 ELSE Min(ms)

RECURSIVE SubDelim(_, _, _, _, _, _)
\* re.sub(open(.*?)close, pre \1 post, s) scanning from position i: leftmost
\* matches, not overlapping, text outside a match copied.
SubDelim(s, i, open, close, pre, post) ==
    IF i > Len(s) THEN <<>>
    ELSE IF NextMatch(s, i, open, close) = 0 THEN SubSeq(s, i, Len(s))
    ELSE LET p == NextMatch(s, i, open, close)
             k == MatchClose(s, p, open, close)
         IN  SubSeq(s, i, p - 1) \o pre \o SubSeq(s, p + Len(open), k - 1) \o post
                 \o SubDelim(s, k + Len(close), open, close, pre, post)

\* The lazy group (.*?) followed by (\n|$): the position of the first newline at
\* or after j, or Len(s) + 1 at the end of the string.
LineEnd(s, j) ==
    LET nls == {k \in j..Len(s) : s[k] = NL}
    IN  IF nls = {} THEN Len(s) + 1 ELSE Min(nls)

\* the leftmost position at or after i where pat starts; 0 when none
NextStart(s, i, pat) ==
    LET ps == {p \in i..Len(s) : StartsWith(s, p, pat)}
    IN  IF ps = {} THEN 0 ELSE Min(ps)

BOpen == Str(<<"<", "b", ">">>)
BClose == Str(<<"<", "/", "b", ">">>)
IOpen == Str(<<"<", "i", ">">>)
IClose == Str(<<"<", "/", "i", ">">>)
Star == Str(<<"*">>)
StarStar == Str(<<"*", "*">>)
Underscore == Str(<<"_">>)
H2Marker == Str(<<"#", "#", " ">>)
H1Marker == Str(<<"#", " ">>)
LinkOpen == Str(<<"[">>)
LinkMiddle == Str(<<"]", "(">>)
LinkClose == Str(<<")">>)
AnchorStart == Str(<<"<", "a", " ", "h", "r", "e", "f", "=", "\"">>)
AnchorMiddle == Str(<<"\"", ">">>)
AnchorEnd == Str(<<"<", "/", "a", ">">>)

RECURSIVE SubHeader(_, _, _)
\* re.sub(marker(.*?)(\n|$), <b>\1</b>\n, s) for marker "## " or "# ", scanning
\* from position i.
SubHeader(s, i, marker) ==
    IF i > Len(s) THEN <<>>
    ELSE IF NextStart(s, i, marker) = 0 THEN SubSeq(s, i, Len(s))
    ELSE LET p == NextStart(s, i, marker)
             e == LineEnd(s, p + Len(marker))
         IN  SubSeq(s, i, p - 1) \o BOpen \o SubSeq(s, p + Len(marker), e - 1)
                 \o BClose \o <<NL>> \o SubHeader(s, e + 1, marker)

\* the substitution of the "## " headers
Headers2(s) == SubHeader(s, 1, H2Marker)

\* the substitution of the "# " headers
Headers1(s) == SubHeader(s, 1, H1Marker)

Headers(s) == Apply(Headers1, Apply(Headers2, s))

\* the substitution of **..**
Bold2(s) == SubDelim(s, 1, StarStar, StarStar, BOpen, BClose)

\* the substitution of *..*
Bold1(s) == SubDelim(s, 1, Star, Star, BOpen, BClose)

Bold(s) == Apply(Bold1, Apply(Bold2, s))

Italic(s) == SubDelim(s, 1, Underscore, Underscore, IOpen, IClose)

AnchorOf(text, url) == AnchorStart \o url \o AnchorMiddle \o text \o AnchorEnd

\* where the match of \[(.*?)\]\((.*?)\) that starts at p has its "](";
\* 0 when there is no "](" for it
LinkMid(s, p) ==
    IF StartsWith(s, p, LinkOpen) THEN FindClose(s, p + Len(LinkOpen), LinkMiddle) ELSE 0

\* where the match that starts at p has its ")"; 0 when no match starts at p
LinkEnd(s, p) ==
    IF LinkMid(s, p) # 0 THEN FindClose(s, LinkMid(s, p) + Len(LinkMiddle), LinkClose)
    ELSE 0

\* the leftmost position at or after i where a link matches; 0 when none
NextLink(s, i) ==
    LET ms == {p \in i..Len(s) : LinkEnd(s, p) # 0}
    IN  IF ms = {} THEN 0 ELSE Min(ms)

RECURSIVE Links(_, _)
\* re.sub(\[(.*?)\]\((.*?)\), <a href="\2">\1</a>, s) scanning from position i.
Links(s, i) ==
    IF i > Len(s) THEN <<>>
    ELSE IF NextLink(s, i) = 0 THEN SubSeq(s, i, Len(s))
    ELSE LET p == NextLink(s, i)
             k1 == LinkMid(s, p)
             k2 == LinkEnd(s, p)
         IN  SubSeq(s, i, p - 1)
                 \o AnchorOf(SubSeq(s, p + 1, k1 - 1), SubSeq(s, k1 + 2, k2 - 1))
                 \o Links(s, k2 + 1)

\* the title line shared by the header and by the message main sends
Title ==
    Str(<<"MAGNIFYING GLASS", " ", "A", "I", " ", "&", " ", "T", "E", "C", "H", " ",
          "N", "E", "W", "S", " ", "M", "A", "R", "K", "E", "T", " ",
          "A", "N", "A", "L", "Y", "S", "I", "S">>)

\* datetime.now().strftime("%Y-%m-%d %H:%M"), at a fixed value of the clock
Timestamp ==
    Str(<<"2", "0", "2", "6", "-", "1", "0", "-", "3", "0", " ", "0", "3", ":", "3", "5">>)

\* header of send_to_telegram
Header ==
    Title \o <<NL>> \o Str(<<"<", "c", "o", "d", "e", ">">>) \o Timestamp
        \o Str(<<"<", "/", "c", "o", "d", "e", ">">>) \o <<NL, NL>>

RECURSIVE RemoveAll(_, _, _)
\* str.replace(pat, ""), scanning from position i.
RemoveAll(s, i, pat) ==
    IF i > Len(s) THEN <<>>
    ELSE IF NextStart(s, i, pat) = 0 THEN SubSeq(s, i, Len(s))
    ELSE SubSeq(s, i, NextStart(s, i, pat) - 1)
             \o RemoveAll(s, NextStart(s, i, pat) + Len(pat), pat)

\* message.replace(header, "")
RemoveHeader(msg) == RemoveAll(msg, 1, Header)

\* the substitution of the links
LinksAll(s) == Links(s, 1)

\* content of send_to_telegram after the substitutions
Translate(msg) ==
    Apply(LinksAll, Apply(Italic, Apply(Bold, Apply(Headers, Apply(RemoveHeader, msg)))))

(***************************************************************************)
(* The splitting of send_to_telegram                                       *)
(***************************************************************************)
max_length == 4096

RECURSIVE LenOf(_, _, _)
\* number of characters of t[lo..hi]: a negative element -n stands for n
\* characters that are neither markup nor line breaks
LenOf(t, lo, hi) ==
    IF lo > hi THEN 0
    ELSE IF lo = hi THEN (IF t[lo] < 0 THEN -t[lo] ELSE 1)
    ELSE LenOf(t, lo, (lo + hi) \div 2) + LenOf(t, (lo + hi) \div 2 + 1, hi)

\* len(t)
TextLen(t) == LenOf(t, 1, Len(t))

Sep == <<NL, NL>>

\* the position of the first "\n\n" of t at or after position i, 0 when there is none
NextSep(t, i) == NextStart(t, i, Sep)

RECURSIVE SplitFrom(_, _)
\* t.split("\n\n") from position i: separators are found left to right and do
\* not overlap.
SplitFrom(t, i) ==
    IF NextSep(t, i) = 0 THEN <<SubSeq(t, i, Len(t))>>
    ELSE <<SubSeq(t, i, NextSep(t, i) - 1)>> \o SplitFrom(t, NextSep(t, i) + 2)

Split(t) == SplitFrom(t, 1)

RECURSIVE Join(_)
\* "\n\n".join(parts)
Join(parts) ==
    IF parts = <<>> THEN <<>>
    ELSE IF Len(parts) = 1 THEN parts[1]
    ELSE parts[1] \o Sep \o Join(Tail(parts))

\* html_message = header + content
HtmlMessage(body) == Header \o body

\* variant: the two characters of the separator are not counted
FitsNoSeparator(current_message, paragraph) ==
    TextLen(current_message) + TextLen(paragraph) <= max_length

\* the test of the splitting loop
Fits(current_message, paragraph) ==
    TextLen(current_message) + TextLen(paragraph) + 2 <= max_length

RECURSIVE SplitLoop(_, _, _, _)
\* the for loop over paragraphs, from paragraph i, and the append after it
SplitLoop(paragraphs, i, msgs, current_message) ==
    IF i > Len(paragraphs)
    THEN IF current_message # <<>> THEN Append(msgs, current_message) ELSE msgs
    ELSE LET paragraph == paragraphs[i]
         IN  IF Fits(current_message, paragraph)
             THEN SplitLoop(paragraphs, i + 1, msgs,
                            IF current_message # <<>>
                            THEN current_message \o Sep \o paragraph
                            ELSE paragraph)
             ELSE SplitLoop(paragraphs, i + 1, Append(msgs, current_message), paragraph)

\* the loop run over all the paragraphs, from no messages and an empty current
\* message
SplitParagraphs(paragraphs) == SplitLoop(paragraphs, 1, <<>>, <<>>)

\* the paragraphs of the text, and the loop over them
SplitText(html) == Apply(SplitParagraphs, Split(html))

\* messages of send_to_telegram
SplitMessages(html) ==
    IF TextLen(html) <= max_length THEN <<html>> ELSE SplitText(html)

\* send_to_telegram up to its sending loop: the parts built from the argument
PartsOf(msg) == Apply(SplitMessages, HtmlMessage(Translate(msg)))

(***************************************************************************)
(* The processed-url file                                                  *)
(***************************************************************************)
\* the characters str.strip() removes
Whitespace ==
    {9, 10, 11, 12, 13, 28, 29, 30, 31, 32, 133, 160, 5760}
        \cup (8192..8202) \cup {8232, 8233, 8239, 8287, 12288}

\* str.lstrip()
LStrip(s) ==
    LET kept == {i \in 1..Len(s) : s[i] \notin Whitespace}
    IN  IF kept = {} THEN <<>> ELSE SubSeq(s, Min(kept), Len(s))

\* str.rstrip()
RStrip(s) ==
    LET kept == {i \in 1..Len(s) : s[i] \notin Whitespace}
    IN  IF kept = {} THEN <<>> ELSE SubSeq(s, 1, Max(kept))

\* str.strip()
Strip(s) == RStrip(LStrip(s))

CR == Ord("\r")

\* reading in text mode: "\r\n" and "\r" are read as "\n"
ReadText(f) ==
    LET kept == SelectSeq([i \in 1..Len(f) |-> <<i, f[i]>>],
                          LAMBDA x : ~(x[2] = NL /\ x[1] > 1 /\ f[x[1] - 1] = CR))
    IN  [i \in 1..Len(kept) |-> IF kept[i][2] = CR THEN NL ELSE kept[i][2]]

\* the positions where the lines of the text t end: each "\n", and the end of
\* the text
LineEnds(t) == {k \in 1..Len(t) : t[k] = NL} \cup (IF t = <<>> THEN {} ELSE {Len(t)})

\* f.readlines() on the text t: each line with its "\n"
ReadLines(t) ==
    LET ends == LineEnds(t)
        nth(i) == CHOOSE e \in ends : Cardinality({x \in ends : x <= e}) = i
    IN  [i \in 1..Cardinality(ends) |->
            SubSeq(t, IF i = 1 THEN 1 ELSE nth(i - 1) + 1, nth(i))]

\* load_processed_urls: the set of the stripped lines of the file (a missing
\* file is the empty file)
load_processed_urls(f) ==
    {Strip(line) : line \in Range(Apply(ReadLines, Apply(ReadText, f)))}

\* save_processed_urls: url + "\n" for each url, appended
save_processed_urls(f, urls) ==
    f \o Concat([i \in 1..Len(urls) |-> urls[i] \o <<NL>>])

(***************************************************************************)
(* main: collecting the articles, the arguments of send_to_telegram        *)
(***************************************************************************)
MAX_ARTICLES == 30

NGroups == 2

RECURSIVE Collect(_, _, _, _, _)
\* the inner for loop of main over one group's articles, from article i
Collect(articles, i, seen, all, processed) ==
    IF i > Len(articles) THEN [seen |-> seen, all |-> all]
    ELSE LET url == articles[i]
         IN  IF url # <<>> /\ url \notin seen /\ url \notin processed
             THEN Collect(articles, i + 1, seen \cup {url}, Append(all, url), processed)
             ELSE Collect(articles, i + 1, seen, all, processed)

\* all_articles[:MAX_ARTICLES]
Truncate(all) == SubSeq(all, 1, IF Len(all) < MAX_ARTICLES THEN Len(all) ELSE MAX_ARTICLES)

\* variant: the status of the search is not tested
FetchNeverRaises(status) == FALSE

\* fetch_articles_by_keywords raises on a status other than 200
FetchRaises(status) == status # 200

\* send_to_telegram raises on a status other than 200
SendRaises(status) == status # 200

\* the argument of send_to_telegram in the try block: title, "\n\n", analysis
AnalysisArg(analysis) == Title \o Sep \o analysis

\* the argument of send_to_telegram in the except clause, e being str(e)
ErrorArg(e) ==
    Str(<<"WARNING SIGN", "VARIATION SELECTOR-16", " ", "N", "E", "W", "S", " ",
          "A", "N", "A", "L", "Y", "S", "I", "S", " ", "E", "R", "R", "O", "R">>)
        \o Sep \o Str(<<"CROSS MARK", " ", "E", "r", "r", "o", "r", ":", " ">>) \o e

\* variant: the call of the except clause is not guarded
ExceptInNotifyMissing == [pc |-> "crashed", outcome |-> "unhandled"]

\* the inner except clause of main: a failure of the notification is printed
ExceptInNotify == [pc |-> "idle", outcome |-> "error_unreported"]

(***************************************************************************)
(* Inputs                                                                  *)
(***************************************************************************)
MaxRuns == 2
MaxResults == 1
MaxParagraphs == 2
MaxTokens == 4
MaxPlainLen == 3
MaxUrlLen == 3

\* article.get("url") is None or ""
NoUrl == <<>>
\* urls: plain, with a trailing space, with a line break
Urls == {NoUrl, Str(<<"a">>), Str(<<"a", " ">>), Str(<<"a", "\n", "b">>)}
Results == SeqsUpTo(Urls, MaxResults)
Paragraph == <<-4000>>
\* texts returned by analyze_with_gemini: a short one, and long paragraphs
Analyses == {<<-100>>} \cup {Join([i \in 1..n |-> Paragraph]) : n \in 1..MaxParagraphs}
\* texts of the exceptions: one short line; a long text with a blank line, a
\* line break and underscores
ErrTexts ==
    {<<-30>>, <<-2521, NL, NL, -2477, NL>> \o Str(<<"a", "_", "b", "_", "c">>)}

SegTokens == {NL, Ord("_"), -1, -4030, -4032, -4033, -4097}
SegInputs == SeqsUpTo(SegTokens, MaxTokens)

Alphabet == Range(Str(<<"a", "_", "*", "[", "]", "(", ")", "#", " ", "\n">>))
LinkTexts == SeqsUpTo(Range(Str(<<"a", "_", "*">>)), 2)
LinkUrls == SeqsUpTo(Range(Str(<<"u", "_", "*">>)), MaxUrlLen)
LinkPrefixes == {<<>>, H2Marker, Underscore, Str(<<"a", "\n">>)}
LinkDoc(pre, text, url) == pre \o LinkOpen \o text \o LinkMiddle \o url \o LinkClose
TrDocs ==
    SeqsUpTo(Alphabet, MaxPlainLen)
        \cup {LinkDoc(pre, t, u) : pre \in LinkPrefixes, t \in LinkTexts, u \in LinkUrls}
        \cup {Str(<<"a">>) \o Header \o Str(<<"_", "b", "_">>)}
SendInputs == TrDocs \cup SegInputs

(***************************************************************************)
(* main, one step per external call                                        *)
(***************************************************************************)
PostEvent(call, part, status) ==
    [op |-> "post", call |-> call, part |-> part, status |-> status]

SleepEvent(call, part) ==
    [op |-> "sleep", call |-> call, part |-> part, status |-> 0]

\* main has not been called
MainIdle ==
    /\ run = 0
    /\ file = <<>>
    /\ file0 = <<>>
    /\ appended = {}
    /\ processed_urls = {}
    /\ seen_urls = {}
    /\ all_articles = <<>>
    /\ group = 1
    /\ searchLog = <<>>
    /\ failedAt = "none"
    /\ outcome = "running"
    /\ sendCalls = <<>>
    /\ events = <<>>
    /\ nParts = 0
    /\ idx = 1

Init ==
    /\ pc = "idle"
    /\ message = <<>>
    /\ content = <<>>
    /\ html_message = <<>>
    /\ messages = <<>>
    /\ MainIdle

\* send_to_telegram is called with msg and has built its parts
CallSend(msg) ==
    /\ message' = msg
    /\ content' = Translate(msg)
    /\ html_message' = HtmlMessage(Translate(msg))
    /\ messages' = PartsOf(msg)
    /\ idx' = 1

\* main is entered: load_processed_urls and the empty collections
StartRun ==
    /\ pc = "idle"
    /\ run < MaxRuns
    /\ run' = run + 1
    /\ appended' = appended \cup (IF outcome = "success" THEN Range(all_articles) ELSE {})
    /\ file0' = file
    /\ processed_urls' = load_processed_urls(file)
    /\ seen_urls' = {}
    /\ all_articles' = <<>>
    /\ group' = 1
    /\ searchLog' = <<>>
    /\ failedAt' = "none"
    /\ outcome' = "running"
    /\ sendCalls' = <<>>
    /\ events' = <<>>
    /\ message' = <<>>
    /\ content' = <<>>
    /\ html_message' = <<>>
    /\ messages' = <<>>
    /\ nParts' = 0
    /\ idx' = 1
    /\ pc' = "fetch"
    /\ UNCHANGED file

\* The except clause of main is entered with an exception of text e:
\* send_to_telegram is called with the error message.
Handler(e) ==
    /\ CallSend(ErrorArg(e))
    /\ sendCalls' = Append(sendCalls, "error")
    /\ pc' = "notify"

\* fetch_articles_by_keywords(group) answers with `status` and `results`, then
\* the inner loop of main; after the last group, the test for no articles and
\* the cut to MAX_ARTICLES.
Fetch(status, results) ==
    /\ pc = "fetch"
    /\ searchLog' = Append(searchLog, status)
    /\ IF FetchRaises(status)
       THEN /\ failedAt' = "search"
            /\ \E e \in ErrTexts : Handler(e)
            /\ UNCHANGED <<seen_urls, all_articles, group, outcome>>
       ELSE LET articles == IF status = 200 THEN results ELSE <<>>
                c == Collect(articles, 1, seen_urls, all_articles, processed_urls)
            IN  /\ seen_urls' = c.seen
                /\ group' = group + 1
                /\ IF group < NGroups
                   THEN /\ pc' = "fetch"
                        /\ all_articles' = c.all
                        /\ outcome' = outcome
                   ELSE IF c.all = <<>>
                   THEN /\ pc' = "idle"
                        /\ all_articles' = c.all
                        /\ outcome' = "no_articles"
                   ELSE /\ pc' = "analyze"
                        /\ all_articles' = Truncate(c.all)
                        /\ outcome' = outcome
                /\ UNCHANGED <<failedAt, message, content, html_message, messages,
                               sendCalls, idx>>
    /\ UNCHANGED <<file, file0, appended, processed_urls, events, nParts, run>>

FetchOk == \E results \in Results : Fetch(200, results)

FetchFail == Fetch(500, <<>>)

\* analyze_with_gemini returns, save_analysis, and send_to_telegram is called
\* with the analysis
AnalyzeOk ==
    /\ pc = "analyze"
    /\ \E analysis \in Analyses :
          /\ CallSend(AnalysisArg(analysis))
          /\ nParts' = Len(PartsOf(AnalysisArg(analysis)))
    /\ sendCalls' = Append(sendCalls, "analysis")
    /\ pc' = "deliver"
    /\ UNCHANGED <<file, file0, appended, processed_urls, seen_urls, all_articles,
                   group, searchLog, failedAt, outcome, events, run>>

\* analyze_with_gemini raises
AnalyzeFail ==
    /\ pc = "analyze"
    /\ failedAt' = "generate"
    /\ \E e \in ErrTexts : Handler(e)
    /\ UNCHANGED <<file, file0, appended, processed_urls, seen_urls, all_articles,
                   group, searchLog, outcome, events, nParts, run>>

\* one turn of the sending loop, in the call that sends the analysis
Send(status) ==
    /\ pc = "deliver"
    /\ IF SendRaises(status)
       THEN /\ events' = Append(events, PostEvent("analysis", idx, status))
            /\ failedAt' = "send"
            /\ \E e \in ErrTexts : Handler(e)
       ELSE /\ events' = events \o <<PostEvent("analysis", idx, status),
                                     SleepEvent("analysis", idx)>>
            /\ idx' = idx + 1
            /\ pc' = IF idx < Len(messages) THEN "deliver" ELSE "persist"
            /\ UNCHANGED <<failedAt, message, content, html_message, messages, sendCalls>>
    /\ UNCHANGED <<file, file0, appended, processed_urls, seen_urls, all_articles,
                   group, searchLog, outcome, nParts, run>>

SendOk == Send(200)

SendFail == Send(500)

\* save_processed_urls and the end of the try block
Persist ==
    /\ pc = "persist"
    /\ file' = save_processed_urls(file, all_articles)
    /\ outcome' = "success"
    /\ pc' = "idle"
    /\ UNCHANGED <<message, content, html_message, messages, nParts, idx, events,
                   file0, appended, processed_urls, seen_urls, all_articles, group,
                   searchLog, failedAt, sendCalls, run>>

\* one turn of the sending loop, in the call of the except clause
Notify(status) ==
    /\ pc = "notify"
    /\ IF SendRaises(status)
       THEN /\ events' = Append(events, PostEvent("error", idx, status))
            /\ pc' = ExceptInNotify.pc
            /\ outcome' = ExceptInNotify.outcome
            /\ idx' = idx
       ELSE /\ events' = events \o <<PostEvent("error", idx, status),
                                     SleepEvent("error", idx)>>
            /\ idx' = idx + 1
            /\ pc' = IF idx < Len(messages) THEN "notify" ELSE "idle"
            /\ outcome' = IF idx < Len(messages) THEN outcome ELSE "error_reported"
    /\ UNCHANGED <<message, content, html_message, messages, nParts, file, file0,
                   appended, processed_urls, seen_urls, all_articles, group,
                   searchLog, failedAt, sendCalls, run>>

NotifyOk == Notify(200)

NotifyFail == Notify(500)

Next ==
    \/ StartRun
    \/ FetchOk
    \/ FetchFail
    \/ AnalyzeOk
    \/ AnalyzeFail
    \/ SendOk
    \/ SendFail
    \/ Persist
    \/ NotifyOk
    \/ NotifyFail

Spec == Init /\ [][Next]_vars

(***************************************************************************)
(* send_to_telegram on any message, up to its sending loop                 *)
(***************************************************************************)
SendInit ==
    /\ pc = "convert"
    /\ message \in SendInputs
    /\ content = <<>>
    /\ html_message = <<>>
    /\ messages = <<>>
    /\ MainIdle

\* the replace and the re.sub chain
Convert ==
    /\ pc = "convert"
    /\ content' = Translate(message)
    /\ pc' = "compose"
    /\ UNCHANGED <<message, html_message, messages, nParts, idx, events, file, file0,
                   appended, processed_urls, seen_urls, all_articles, group,
                   searchLog, failedAt, outcome, sendCalls, run>>

\* html_message = header + content
Compose ==
    /\ pc = "compose"
    /\ html_message' = HtmlMessage(content)
    /\ pc' = "split"
    /\ UNCHANGED <<message, content, messages, nParts, idx, events, file, file0,
                   appended, processed_urls, seen_urls, all_articles, group,
                   searchLog, failedAt, outcome, sendCalls, run>>

\* the splitting into messages
SplitParts ==
    /\ pc = "split"
    /\ messages' = SplitMessages(html_message)
    /\ pc' = "split_done"
    /\ UNCHANGED <<message, content, html_message, nParts, idx, events, file, file0,
                   appended, processed_urls, seen_urls, all_articles, group,
                   searchLog, failedAt, outcome, sendCalls, run>>

SendNext == Convert \/ Compose \/ SplitParts

SpecSend == SendInit /\ [][SendNext]_vars

(***************************************************************************)
(* The splitting of send_to_telegram on any text                           *)
(***************************************************************************)
SplitInit ==
    /\ pc = "split"
    /\ html_message \in SegInputs
    /\ message = <<>>
    /\ content = <<>>
    /\ messages = <<>>
    /\ MainIdle

SpecSplit == SplitInit /\ [][SplitParts]_vars

(***************************************************************************)
(* Properties                                                              *)
(***************************************************************************)
Contains(s, pat) == \E i \in 1..(Len(s) - Len(pat) + 1) : StartsWith(s, i, pat)

PostsOf(call) == SelectSeq(events, LAMBDA e : e.op = "post" /\ e.call = call)

\* the call of send_to_telegram that sends the analysis has been made and is over
AnalysisCallOver == sendCalls # <<>> /\ sendCalls[1] = "analysis" /\ pc # "deliver"

\* C1: per-chunk failure isolation.  Once the call that sends the analysis is
\* over, every one of its parts has been posted exactly once, in order,
\* whatever the statuses were, and the call has not raised.
DeliveryIsolatesFailures ==
    AnalysisCallOver =>
        /\ Len(PostsOf("analysis")) = nParts
        /\ \A i \in 1..Len(PostsOf("analysis")) : PostsOf("analysis")[i].part = i
        /\ failedAt # "send"

\* C2: every part built by the splitting is at most max_length long, unless it
\* is exactly one paragraph of the text that is itself longer than max_length.
SegmenterSizeBound ==
    pc = "split_done" =>
        \A i \in 1..Len(messages) :
            \/ TextLen(messages[i]) <= max_length
            \/ /\ messages[i] \in Range(Split(html_message))
               /\ TextLen(messages[i]) > max_length

\* C2 witness: a split text with a part of several paragraphs that is exactly
\* max_length long and a part that is one paragraph longer than max_length.
SegmenterSizeBoundWitness ==
    /\ pc = "split_done"
    /\ \E i \in 1..Len(messages) :
          TextLen(messages[i]) = max_length /\ Len(Split(messages[i])) >= 2
    /\ \E i \in 1..Len(messages) : TextLen(messages[i]) > max_length

\* C3: round trip of the splitting.  Joining the parts with "\n\n" and
\* splitting again gives the paragraphs of the text.
SegmenterRoundTrip ==
    pc = "split_done" => Split(Join(messages)) = Split(html_message)

\* C4: a run in which search and generation succeeded and a part of the
\* analysis got a status other than 200 ends as a success with the urls of the
\* collected articles appended to the file.
PartialFailureStillPersists ==
    (/\ pc = "idle"
     /\ \E i \in 1..Len(events) :
           events[i].op = "post" /\ events[i].call = "analysis" /\ events[i].status # 200)
        => /\ outcome = "success"
           /\ file = save_processed_urls(file0, all_articles)

\* the articles of the run have been handed to analyze_with_gemini
PassedToGeneration == pc \in {"analyze", "deliver", "persist"} \/ sendCalls # <<>>

\* C5: deduplication.  Every article passed to generation has a url that was
\* not in the processed set loaded at the start of the run, that differs from
\* the url of every other article of the run, and that no earlier run has
\* appended to the file; and the file only grows.
DedupAcrossRuns ==
    /\ Len(file0) <= Len(file) /\ SubSeq(file, 1, Len(file0)) = file0
    /\ PassedToGeneration =>
          \A i \in 1..Len(all_articles) :
              /\ all_articles[i] \notin load_processed_urls(file0)
              /\ \A j \in 1..Len(all_articles) : all_articles[j] = all_articles[i] => j = i
              /\ all_articles[i] \notin appended

UpstreamFailed == failedAt \in {"search", "generate"}

\* C6: top-level error handling.  A failure of search or generation reaches
\* the except clause of main, which calls send_to_telegram once with the error;
\* a failure of that call is swallowed; main never ends with an unhandled
\* exception, and until it has ended it always has a next step.
TopLevelErrorHandling ==
    /\ pc # "crashed"
    /\ outcome # "unhandled"
    /\ UpstreamFailed => pc \in {"notify", "idle"} /\ sendCalls = <<"error">>
    /\ (pc = "idle" /\ run > 0) =>
          outcome \in {"success", "no_articles", "error_reported", "error_unreported"}
    /\ pc # "idle" => ENABLED Next

\* C6 witness: generation failed, the notification failed too, and main has ended.
TopLevelErrorHandlingWitness ==
    /\ failedAt = "generate"
    /\ pc = "idle"
    /\ outcome = "error_unreported"
    /\ PostsOf("error") # <<>>

\* C7: pacing.  Every post that is followed by another post has a sleep
\* between the two, whether it succeeded or failed.
PacingBetweenSends ==
    \A i \in 1..(Len(events) - 1) :
        events[i].op = "post" => events[i + 1].op = "sleep"

\* the link spans [text](url) of s: text and url not empty and free of
\* brackets and newlines
LinkSpans(s) ==
    {<<SubSeq(s, t[1] + 1, t[2] - 1), SubSeq(s, t[2] + 2, t[3] - 1)>> :
        t \in {t \in (1..Len(s)) \X (1..Len(s)) \X (1..Len(s)) :
                /\ t[1] + 1 < t[2] /\ t[2] + 2 < t[3]
                /\ StartsWith(s, t[1], LinkOpen)
                /\ StartsWith(s, t[2], LinkMiddle)
                /\ StartsWith(s, t[3], LinkClose)
                /\ \A j \in (t[1] + 1)..(t[3] - 1) :
                      j \notin {t[2], t[2] + 1} =>
                          s[j] \notin Range(LinkOpen \o LinkMiddle \o LinkClose \o <<NL>>)}}

\* C8: link preservation.  For every link span [text](url) of the message, the
\* converted content holds <a href="url">text</a> with text and url unchanged.
LinkPreserved ==
    pc \in {"compose", "split", "split_done"} =>
        \A span \in LinkSpans(message) : Contains(content, AnchorOf(span[1], span[2]))

UpstreamFailure ==
    \/ \E i \in 1..Len(searchLog) : searchLog[i] # 200
    \/ failedAt = "generate"

\* the parts of the error notification are posted in order, each at most once
ErrorPartsInOrder ==
    /\ Len(PostsOf("error")) <= Len(messages)
    /\ \A i \in 1..Len(PostsOf("error")) : PostsOf("error")[i].part = i

\* C10, as amended: an upstream failure leaves the store untouched.  After a
\* failure of a search or of the generation no later group is searched, no part
\* of an analysis is posted, the file is as it was at the start of the run, and
\* the only call of send_to_telegram is the one of the except clause, whose
\* parts, one or several, are the only messages posted.
UpstreamFailureLeavesStore ==
    UpstreamFailure =>
        /\ pc \in {"notify", "idle"}
        /\ \A i \in 1..Len(searchLog) : searchLog[i] # 200 => i = Len(searchLog)
        /\ \A i \in 1..Len(events) : events[i].call = "error"
        /\ sendCalls = <<"error">>
        /\ ErrorPartsInOrder
        /\ file = file0

\* C10 witness: a run over a file that is not empty collected articles from the
\* first group, the search of the second group failed, the error notification
\* was posted in two parts, and main has ended.
UpstreamFailureLeavesStoreWitness ==
    /\ searchLog = <<200, 500>>
    /\ all_articles # <<>>
    /\ file0 # <<>>
    /\ Len(PostsOf("error")) = 2
    /\ pc = "idle"
    /\ outcome = "error_reported"

\* C10, as stated: as above, and the error notification is a single message:
\* at most one message is posted.
UpstreamFailureSingleMessage ==
    UpstreamFailure =>
        /\ pc \in {"notify", "idle"}
        /\ \A i \in 1..Len(searchLog) : searchLog[i] # 200 => i = Len(searchLog)
        /\ \A i \in 1..Len(events) : events[i].call = "error"
        /\ sendCalls = <<"error">>
        /\ file = file0
        /\ Len(PostsOf("error")) <= 1

====
